---- MODULE Spec2Model ----
(***************************************************************************)
(* Model of the Thumb writer of gum/arch-arm/gumthumbwriter.c: the cursor  *)
(* into the caller's code buffer, the label table, the pending label and   *)
(* literal references, and flush, which patches the branches and appends   *)
(* the literal pool.                                                       *)
(*                                                                         *)
(* Addresses are byte addresses.  The code buffer is a byte map that holds *)
(* exactly the bytes the writer has stored; halfwords are stored low byte  *)
(* first (GUINT16_TO_LE).  All addresses and immediates of the model stay  *)
(* below 2^31, so the (gint32) casts of flush are the identity on them.    *)
(***************************************************************************)
EXTENDS Integers, Sequences, FiniteSets, TLC

(* ------------------------------------------------------------------ *)
(* Program constants                                                   *)
(* ------------------------------------------------------------------ *)
GUM_MAX_LABEL_COUNT == 100
GUM_MAX_LREF_COUNT == 3 * GUM_MAX_LABEL_COUNT
GUM_MAX_LITERAL_REF_COUNT == 100

(* gumdefs.h is not part of the sources at hand: the masks and the range   *)
(* predicates are taken from their names and from the description of the   *)
(* fixups ("signed 8 bits", "signed 11 bits", "unsigned 7 bits").          *)
GUM_INT5_MASK == 31
GUM_INT8_MASK == 255
GUM_INT11_MASK == 2047
GUM_IS_WITHIN_UINT7_RANGE(i) == i >= 0 /\ i <= 127
GUM_IS_WITHIN_INT8_RANGE(i) == i >= -128 /\ i <= 127
GUM_IS_WITHIN_INT11_RANGE(i) == i >= -1024 /\ i <= 1023

(* Register meta classes of gumarmreg.h: R0..R15 in order, SP/LR/PC being  *)
(* aliases of R13/R14/R15.  A register is modelled by its number.          *)
GUM_ARM_MREG_R0 == 0
GUM_ARM_MREG_R7 == 7
GUM_ARM_MREG_R8 == 8
GUM_ARM_MREG_SP == 13
GUM_ARM_MREG_LR == 14
GUM_ARM_MREG_PC == 15
gum_arm_reg_describe(reg) == [index |-> reg, meta |-> reg]

(* ------------------------------------------------------------------ *)
(* C arithmetic                                                        *)
(* ------------------------------------------------------------------ *)
ABS(x) == IF x < 0 THEN -x ELSE x

(* C's / and % truncate towards zero. *)
CDiv(x, d) == IF x >= 0 THEN x \div d ELSE -((-x) \div d)
CMod(x, d) == x - d * CDiv(x, d)

RECURSIVE BitAnd(_, _)
BitAnd(a, b) ==
  IF a = 0 \/ b = 0 THEN 0
  ELSE (IF a % 2 = 1 /\ b % 2 = 1 THEN 1 ELSE 0) + 2 * BitAnd(a \div 2, b \div 2)

RECURSIVE BitOr(_, _)
BitOr(a, b) ==
  IF a = 0 THEN b
  ELSE IF b = 0 THEN a
  ELSE (IF a % 2 = 1 \/ b % 2 = 1 THEN 1 ELSE 0) + 2 * BitOr(a \div 2, b \div 2)

RECURSIVE Shl(_, _)
Shl(a, n) == IF n = 0 THEN a ELSE Shl(2 * a, n - 1)

(* Assignment to a guint16 keeps the low 16 bits. *)
U16(x) == x % 65536

(* ------------------------------------------------------------------ *)
(* The code buffer                                                     *)
(* ------------------------------------------------------------------ *)
EmptyMem == [a \in {} |-> 0]

StoreBytes(m, at, bytes) ==
  [a \in DOMAIN m \cup {at + k - 1 : k \in 1..Len(bytes)} |->
     IF a >= at /\ a < at + Len(bytes) THEN bytes[a - at + 1] ELSE m[a]]

\* GUINT16_TO_LE: a halfword is stored low byte first.
StoreU16(m, at, v) == StoreBytes(m, at, <<v % 256, (v \div 256) % 256>>)
\* GUINT16_FROM_LE of the halfword at an address.
LoadU16(m, at) == m[at] + 256 * m[at + 1]

(* A guint32 store and load of a literal slot on the little-endian hosts   *)
(* Thumb code runs on.                                                     *)
StoreU32(m, at, v) ==
  StoreBytes(m, at, <<v % 256, (v \div 256) % 256, (v \div 65536) % 256,
                      (v \div 16777216) % 256>>)
LoadU32(m, at) ==
  m[at] + 256 * m[at + 1] + 65536 * m[at + 2] + 16777216 * m[at + 3]

(* ------------------------------------------------------------------ *)
(* State                                                               *)
(* ------------------------------------------------------------------ *)
VARIABLES
  base,            \* writer->base
  code,            \* writer->code, as a byte address
  pc,              \* writer->pc
  id_to_address,   \* label table: sequence of [id, address]
  label_refs,      \* pending label references: [id, insn, pc]
  literal_refs,    \* pending literal references: [val, insn, pc]
  mem,             \* the bytes stored in the caller's buffer
  halfwords,       \* halfwords the cursor has advanced over since reset,
                   \* pool slots excluded (history)
  slots,           \* literal slots appended by flushes since reset (history)
  flushed_labels,  \* the label table as the last flush since reset found it
                   \* (history)
  op,              \* the operation last called
  args,            \* the operands it was called with, where a property
                   \* needs them (history)
  ret,             \* its result: "TRUE", "FALSE" or "void"
  ops,             \* number of calls made so far
  prev,            \* the writer when the last call was made, and the call
                   \* before it with its result (history)
  workload         \* what the caller is doing with the writer

vars == <<base, code, pc, id_to_address, label_refs, literal_refs, mem,
          halfwords, slots, flushed_labels, op, args, ret, ops, prev,
          workload>>

(* The writer as one value, so that an operation is a function on it. *)
Self ==
  [base |-> base, code |-> code, pc |-> pc, id_to_address |-> id_to_address,
   label_refs |-> label_refs, literal_refs |-> literal_refs, mem |-> mem,
   halfwords |-> halfwords, slots |-> slots]

Done(w, r) == [w |-> w, ret |-> r]

(* ------------------------------------------------------------------ *)
(* Lifecycle, cursor, raw emission                                     *)
(* ------------------------------------------------------------------ *)
gum_thumb_writer_reset(w, code_address) ==
  [w EXCEPT !.base = code_address, !.code = code_address,
            !.pc = code_address, !.id_to_address = <<>>,
            !.label_refs = <<>>, !.literal_refs = <<>>,
            !.halfwords = 0, !.slots = 0]

gum_thumb_writer_offset(w) == w.code - w.base

gum_thumb_writer_skip(w, n_bytes) ==
  [w EXCEPT !.code = @ + n_bytes, !.pc = @ + n_bytes,
            !.halfwords = @ + n_bytes \div 2]

gum_thumb_writer_put_instruction(w, insn) ==
  [w EXCEPT !.mem = StoreU16(@, w.code, U16(insn)),
            !.code = @ + 2, !.pc = @ + 2, !.halfwords = @ + 1]

gum_thumb_writer_put_bytes(w, data) ==
  LET n == Len(data) IN
  IF n % 2 # 0 THEN Done(w, "FALSE")
  ELSE Done([w EXCEPT !.mem = StoreBytes(@, w.code, data),
                      !.code = @ + n, !.pc = @ + n,
                      !.halfwords = @ + n \div 2], "TRUE")

gum_thumb_writer_put_nop(w) == gum_thumb_writer_put_instruction(w, 18112)

gum_instruction_is_t1_load(instruction) ==
  BitAnd(instruction, 63488) = 18432

(* ------------------------------------------------------------------ *)
(* Label table and fixup tables                                        *)
(* ------------------------------------------------------------------ *)
\* First mapping with the id, scanning from index 0; 0 when there is none.
RECURSIVE LookupFrom(_, _, _)
LookupFrom(table, id, i) ==
  IF i > Len(table) THEN 0
  ELSE IF table[i].id = id THEN table[i].address
  ELSE LookupFrom(table, id, i + 1)

gum_thumb_writer_lookup_address_for_label_id(w, id) ==
  LookupFrom(w.id_to_address, id, 1)

gum_thumb_writer_add_address_for_label_id(w, id, address) ==
  IF Len(w.id_to_address) = GUM_MAX_LABEL_COUNT THEN Done(w, "FALSE")
  ELSE Done([w EXCEPT !.id_to_address =
                        Append(@, [id |-> id, address |-> address])], "TRUE")

gum_thumb_writer_put_label(w, id) ==
  IF gum_thumb_writer_lookup_address_for_label_id(w, id) # 0
  THEN Done(w, "FALSE")
  ELSE gum_thumb_writer_add_address_for_label_id(w, id, w.pc)

\* Mutant: the reference records the address after the instruction instead
\* of the pc the instruction executes with (address + 4).
gum_thumb_writer_add_label_reference_here_NextInsn(w, id) ==
  IF Len(w.label_refs) = GUM_MAX_LREF_COUNT THEN Done(w, "FALSE")
  ELSE Done([w EXCEPT !.label_refs =
                        Append(@, [id |-> id, insn |-> w.code,
                                   pc |-> w.pc + 2])], "TRUE")

gum_thumb_writer_add_label_reference_here(w, id) ==
  IF Len(w.label_refs) = GUM_MAX_LREF_COUNT THEN Done(w, "FALSE")
  ELSE Done([w EXCEPT !.label_refs =
                        Append(@, [id |-> id, insn |-> w.code,
                                   pc |-> w.pc + 4])], "TRUE")

gum_thumb_writer_add_literal_reference_here(w, val) ==
  IF Len(w.literal_refs) = GUM_MAX_LITERAL_REF_COUNT THEN Done(w, "FALSE")
  ELSE Done([w EXCEPT !.literal_refs =
                        Append(@, [val |-> val, insn |-> w.code,
                                   pc |-> w.pc + 4])], "TRUE")

(* ------------------------------------------------------------------ *)
(* Flush                                                               *)
(* ------------------------------------------------------------------ *)
\* Mutant: the displacement taken from the instruction's own address, not
\* from the pc the reference recorded (address + 4).
LabelDistance_FromInsn(target_address, ref_pc) ==
  CDiv(target_address - (ref_pc - 4), 2)

\* The displacement of a label reference, in halfwords.
LabelDistance(target_address, ref_pc) == CDiv(target_address - ref_pc, 2)

\* The body of the label loop for one reference: the patched halfword, or
\* ok = FALSE where the code takes goto error.
PatchLabelRef(w, r) ==
  LET target_address == gum_thumb_writer_lookup_address_for_label_id(w, r.id)
      distance == LabelDistance(target_address, r.pc)
      insn == LoadU16(w.mem, r.insn)
  IN IF target_address = 0 THEN [ok |-> FALSE, insn |-> insn]
     ELSE IF BitAnd(insn, 61440) = 53248              \* (insn & 0xf000) == 0xd000
       THEN IF ~GUM_IS_WITHIN_INT8_RANGE(distance) THEN [ok |-> FALSE, insn |-> insn]
            ELSE [ok |-> TRUE, insn |-> BitOr(insn, distance % (GUM_INT8_MASK + 1))]
     ELSE IF BitAnd(insn, 63488) = 57344              \* (insn & 0xf800) == 0xe000
       THEN IF ~GUM_IS_WITHIN_INT11_RANGE(distance) THEN [ok |-> FALSE, insn |-> insn]
            ELSE [ok |-> TRUE, insn |-> BitOr(insn, distance % (GUM_INT11_MASK + 1))]
     ELSE IF ~GUM_IS_WITHIN_UINT7_RANGE(distance) THEN [ok |-> FALSE, insn |-> insn]
          ELSE LET i == (distance \div 32) % 2
                   imm5 == distance % (GUM_INT5_MASK + 1)
               IN [ok |-> TRUE, insn |-> BitOr(insn, BitOr(Shl(i, 9), Shl(imm5, 3)))]

\* for (label_idx = 0; label_idx != label_refs_len; label_idx++): each
\* reference is patched in place before the next one is looked at.
RECURSIVE FlushLabelRefs(_, _)
FlushLabelRefs(w, label_idx) ==
  IF label_idx = Len(w.label_refs) THEN [w |-> w, ok |-> TRUE]
  ELSE LET r == w.label_refs[label_idx + 1]
           p == PatchLabelRef(w, r)
       IN IF ~p.ok THEN [w |-> w, ok |-> FALSE]
          ELSE FlushLabelRefs(
                 [w EXCEPT !.mem = StoreU16(@, r.insn, U16(p.insn))],
                 label_idx + 1)

\* Mutant: no search of the slots already allocated.
FindSlot_NoDedup(m, slot, last_slot, val) == last_slot

\* for (slot = first_slot; slot != last_slot; slot++) if (*slot == val) break
RECURSIVE FindSlot(_, _, _, _)
FindSlot(m, slot, last_slot, val) ==
  IF slot = last_slot THEN slot
  ELSE IF LoadU32(m, slot) = val THEN slot
  ELSE FindSlot(m, slot + 4, last_slot, val)

\* Mutant: the cursor advanced by one halfword for a four-byte slot.
AllocateSlot_OneHalfword(w, slot, val) ==
  [w EXCEPT !.mem = StoreU32(@, slot, val), !.code = @ + 2, !.pc = @ + 4,
            !.slots = @ + 1]

\* New slot: *slot = r->val; self->code += 2; self->pc += 4; last_slot++
AllocateSlot(w, slot, val) ==
  [w EXCEPT !.mem = StoreU32(@, slot, val), !.code = @ + 4, !.pc = @ + 4,
            !.slots = @ + 1]

\* The patch of one literal load with the distance to its slot.
PatchLiteralRef(w, r, distance_in_bytes) ==
  LET insn == LoadU16(w.mem, r.insn) IN
  IF gum_instruction_is_t1_load(insn)
  THEN [w EXCEPT !.mem =
          StoreU16(@, r.insn, U16(BitOr(insn, distance_in_bytes \div 4)))]
  ELSE [w EXCEPT !.mem =
          StoreU16(@, r.insn + 2,
                   U16(BitOr(LoadU16(w.mem, r.insn + 2), distance_in_bytes)))]

RECURSIVE FlushLiteralRefs(_, _, _, _)
FlushLiteralRefs(w, first_slot, last_slot, ref_idx) ==
  IF ref_idx = Len(w.literal_refs) THEN w
  ELSE LET r == w.literal_refs[ref_idx + 1]
           slot == FindSlot(w.mem, first_slot, last_slot, r.val)
           is_new == slot = last_slot
           w1 == IF is_new THEN AllocateSlot(w, slot, r.val) ELSE w
           last1 == IF is_new THEN last_slot + 4 ELSE last_slot
           slot_pc == w1.pc - (last1 - first_slot) + (slot - first_slot)
           distance_in_bytes == slot_pc - (r.pc - (r.pc % 4))
       IN FlushLiteralRefs(PatchLiteralRef(w1, r, distance_in_bytes),
                           first_slot, last1, ref_idx + 1)

\* Mutant: the literal references are kept after the pool is emitted.
FlushLiteralPool_KeepRefs(w) ==
  LET need_aligned_slots ==
        \E ref_idx \in 1..Len(w.literal_refs) :
          gum_instruction_is_t1_load(LoadU16(w.mem, w.literal_refs[ref_idx].insn))
      w1 == IF need_aligned_slots /\ w.pc % 4 # 0
            THEN gum_thumb_writer_put_nop(w) ELSE w
  IN FlushLiteralRefs(w1, w1.code, w1.code, 0)

\* Mutant: only the first literal reference is asked whether it is a T1 load.
FlushLiteralPool_FirstRefOnly(w) ==
  LET need_aligned_slots ==
        gum_instruction_is_t1_load(LoadU16(w.mem, w.literal_refs[1].insn))
      w1 == IF need_aligned_slots /\ w.pc % 4 # 0
            THEN gum_thumb_writer_put_nop(w) ELSE w
      w2 == FlushLiteralRefs(w1, w1.code, w1.code, 0)
  IN [w2 EXCEPT !.literal_refs = <<>>]

FlushLiteralPool(w) ==
  LET need_aligned_slots ==
        \E ref_idx \in 1..Len(w.literal_refs) :
          gum_instruction_is_t1_load(LoadU16(w.mem, w.literal_refs[ref_idx].insn))
      w1 == IF need_aligned_slots /\ w.pc % 4 # 0
            THEN gum_thumb_writer_put_nop(w) ELSE w
      w2 == FlushLiteralRefs(w1, w1.code, w1.code, 0)
  IN [w2 EXCEPT !.literal_refs = <<>>]

\* Mutant: the error path empties the label references only.
gum_thumb_writer_flush_KeepLiterals(w) ==
  LET l == IF Len(w.label_refs) > 0 THEN FlushLabelRefs(w, 0)
           ELSE [w |-> w, ok |-> TRUE]
  IN IF ~l.ok
     THEN Done([l.w EXCEPT !.label_refs = <<>>], "FALSE")
     ELSE LET w1 == [l.w EXCEPT !.label_refs = <<>>]
          IN Done(IF Len(w1.literal_refs) > 0 THEN FlushLiteralPool(w1) ELSE w1,
                  "TRUE")

gum_thumb_writer_flush(w) ==
  LET l == IF Len(w.label_refs) > 0 THEN FlushLabelRefs(w, 0)
           ELSE [w |-> w, ok |-> TRUE]
  IN IF ~l.ok
     THEN Done([l.w EXCEPT !.label_refs = <<>>, !.literal_refs = <<>>], "FALSE")
     ELSE LET w1 == [l.w EXCEPT !.label_refs = <<>>]
          IN Done(IF Len(w1.literal_refs) > 0 THEN FlushLiteralPool(w1) ELSE w1,
                  "TRUE")

(* ------------------------------------------------------------------ *)
(* Encoders                                                            *)
(* ------------------------------------------------------------------ *)
gum_thumb_writer_put_bx_reg(w, reg) ==
  gum_thumb_writer_put_instruction(
    w, BitOr(18176, Shl(gum_arm_reg_describe(reg).index, 3)))

gum_thumb_writer_put_cmp_reg_imm(w, reg, imm_value) ==
  gum_thumb_writer_put_instruction(
    w, BitOr(BitOr(10240, Shl(gum_arm_reg_describe(reg).index, 8)), imm_value))

gum_thumb_writer_put_mov_reg_u8(w, dst_reg, imm_value) ==
  gum_thumb_writer_put_instruction(
    w, BitOr(BitOr(8192, Shl(gum_arm_reg_describe(dst_reg).index, 8)),
             imm_value))

\* Mutant: the branch is emitted before the reference is recorded.
gum_thumb_writer_put_b_label_EmitFirst(w, label_id) ==
  LET w1 == gum_thumb_writer_put_instruction(w, 57344)
      a == gum_thumb_writer_add_label_reference_here(w, label_id)
  IN IF a.ret = "FALSE" THEN Done(w1, "FALSE")
     ELSE Done(gum_thumb_writer_put_instruction(a.w, 57344), "TRUE")

gum_thumb_writer_put_b_label(w, label_id) ==
  LET a == gum_thumb_writer_add_label_reference_here(w, label_id) IN
  IF a.ret = "FALSE" THEN Done(w, "FALSE")
  ELSE Done(gum_thumb_writer_put_instruction(a.w, 57344), "TRUE")

gum_thumb_writer_put_b_cond_label(w, cc, label_id) ==
  LET a == gum_thumb_writer_add_label_reference_here(w, label_id) IN
  IF a.ret = "FALSE" THEN Done(w, "FALSE")
  ELSE Done(gum_thumb_writer_put_instruction(
              a.w, BitOr(53248, Shl(cc - 1, 8))), "TRUE")

\* ARM_CC_EQ == 1, ARM_CC_NE == 2 in the arm_cc enumeration.
gum_thumb_writer_put_beq_label(w, label_id) ==
  gum_thumb_writer_put_b_cond_label(w, 1, label_id)

gum_thumb_writer_put_bne_label(w, label_id) ==
  gum_thumb_writer_put_b_cond_label(w, 2, label_id)

gum_thumb_writer_put_cbz_reg_label(w, reg, label_id) ==
  LET ri == gum_arm_reg_describe(reg)
      a == gum_thumb_writer_add_label_reference_here(w, label_id)
  IN IF a.ret = "FALSE" THEN Done(w, "FALSE")
     ELSE Done(gum_thumb_writer_put_instruction(a.w, BitOr(45312, ri.index)),
               "TRUE")

gum_thumb_writer_put_cbnz_reg_label(w, reg, label_id) ==
  LET ri == gum_arm_reg_describe(reg)
      a == gum_thumb_writer_add_label_reference_here(w, label_id)
  IN IF a.ret = "FALSE" THEN Done(w, "FALSE")
     ELSE Done(gum_thumb_writer_put_instruction(a.w, BitOr(47360, ri.index)),
               "TRUE")

gum_thumb_writer_put_ldr_reg_u32(w, reg, val) ==
  LET ri == gum_arm_reg_describe(reg)
      a == gum_thumb_writer_add_literal_reference_here(w, val)
  IN IF a.ret = "FALSE" THEN Done(w, "FALSE")
     ELSE IF ri.meta <= GUM_ARM_MREG_R7
       THEN Done(gum_thumb_writer_put_instruction(
                   a.w, BitOr(18432, Shl(ri.index, 8))), "TRUE")
       ELSE Done(gum_thumb_writer_put_instruction(
                   gum_thumb_writer_put_instruction(
                     a.w, BitOr(63583, Shl(1, 7))),
                   Shl(ri.index, 12)), "TRUE")

\* regs is the array, n_regs its length.
RegMask(regs) ==
  LET RECURSIVE Acc(_, _)
      Acc(i, mask) ==
        IF i > Len(regs) THEN mask
        ELSE Acc(i + 1, BitOr(mask, Shl(1, gum_arm_reg_describe(regs[i]).index)))
  IN Acc(1, 0)

\* Mutant: the special register is given no bit of the narrow encoding.
NarrowRegMask_NoSpecialBit(narrow_opcode, special_reg, regs) ==
  LET RECURSIVE Acc(_, _)
      Acc(i, insn) ==
        IF i > Len(regs) THEN insn
        ELSE LET ri == gum_arm_reg_describe(regs[i]) IN
             Acc(i + 1, IF ri.meta = special_reg THEN insn
                        ELSE BitOr(insn, Shl(1, ri.index)))
  IN Acc(1, narrow_opcode)

NarrowRegMask(narrow_opcode, special_reg, regs) ==
  LET RECURSIVE Acc(_, _)
      Acc(i, insn) ==
        IF i > Len(regs) THEN insn
        ELSE LET ri == gum_arm_reg_describe(regs[i]) IN
             Acc(i + 1, IF ri.meta = special_reg THEN BitOr(insn, 256)
                        ELSE BitOr(insn, Shl(1, ri.index)))
  IN Acc(1, narrow_opcode)

gum_thumb_writer_put_push_or_pop_regs(w, narrow_opcode, wide_opcode, special_reg, regs) ==
  LET need_wide_instruction ==
        \E reg_index \in 1..Len(regs) :
          LET ri == gum_arm_reg_describe(regs[reg_index])
              is_low_reg == ri.meta >= GUM_ARM_MREG_R0 /\ ri.meta <= GUM_ARM_MREG_R7
          IN ~is_low_reg /\ ri.meta # special_reg
  IN IF Len(regs) = 0 THEN Done(w, "FALSE")
     ELSE IF need_wide_instruction
       THEN Done(gum_thumb_writer_put_instruction(
                   gum_thumb_writer_put_instruction(w, wide_opcode),
                   RegMask(regs)), "TRUE")
       ELSE Done(gum_thumb_writer_put_instruction(
                   w, NarrowRegMask(narrow_opcode, special_reg, regs)), "TRUE")

gum_thumb_writer_put_push_regs_array(w, regs) ==
  gum_thumb_writer_put_push_or_pop_regs(w, 46080, 59693, GUM_ARM_MREG_LR, regs)

gum_thumb_writer_put_pop_regs_array(w, regs) ==
  gum_thumb_writer_put_push_or_pop_regs(w, 48128, 59581, GUM_ARM_MREG_PC, regs)

GUM_THUMB_MEMORY_LOAD == 0
GUM_THUMB_MEMORY_STORE == 1

gum_thumb_writer_put_transfer_reg_reg_offset(w, operation, left_reg, right_reg, right_offset) ==
  LET lr == gum_arm_reg_describe(left_reg)
      rr == gum_arm_reg_describe(right_reg)
  IN IF /\ lr.meta <= GUM_ARM_MREG_R7
        /\ (rr.meta <= GUM_ARM_MREG_R7 \/ rr.meta = GUM_ARM_MREG_SP)
        /\ \/ rr.meta = GUM_ARM_MREG_SP /\ right_offset <= 1020
           \/ rr.meta # GUM_ARM_MREG_SP /\ right_offset <= 124
        /\ right_offset % 4 = 0
     THEN LET insn0 ==
                IF rr.meta = GUM_ARM_MREG_SP
                THEN BitOr(BitOr(36864, Shl(lr.index, 8)), right_offset \div 4)
                ELSE BitOr(BitOr(BitOr(24576, Shl(right_offset \div 4, 6)),
                                 Shl(rr.index, 3)), lr.index)
              insn == IF operation = GUM_THUMB_MEMORY_LOAD
                      THEN BitOr(insn0, 2048) ELSE insn0
          IN Done(gum_thumb_writer_put_instruction(w, insn), "TRUE")
     ELSE IF right_offset > 4095 THEN Done(w, "FALSE")
          ELSE Done(gum_thumb_writer_put_instruction(
                      gum_thumb_writer_put_instruction(
                        w, BitOr(BitOr(63680,
                                       IF operation = GUM_THUMB_MEMORY_LOAD
                                       THEN 16 ELSE 0), rr.index)),
                      BitOr(Shl(lr.index, 12), right_offset)), "TRUE")

gum_thumb_writer_put_ldr_reg_reg_offset(w, dst_reg, src_reg, src_offset) ==
  gum_thumb_writer_put_transfer_reg_reg_offset(
    w, GUM_THUMB_MEMORY_LOAD, dst_reg, src_reg, src_offset)

gum_thumb_writer_put_str_reg_reg_offset(w, src_reg, dst_reg, dst_offset) ==
  gum_thumb_writer_put_transfer_reg_reg_offset(
    w, GUM_THUMB_MEMORY_STORE, src_reg, dst_reg, dst_offset)

gum_thumb_writer_put_add_reg_imm(w, dst_reg, imm_value) ==
  LET dst == gum_arm_reg_describe(dst_reg) IN
  IF dst.meta = GUM_ARM_MREG_SP
  THEN IF CMod(imm_value, 4) # 0 THEN Done(w, "FALSE")
       ELSE LET sign_mask == IF imm_value < 0 THEN 128 ELSE 0
                insn == BitOr(BitOr(45056, sign_mask), ABS(CDiv(imm_value, 4)))
            IN Done(gum_thumb_writer_put_instruction(w, insn), "TRUE")
  ELSE LET sign_mask == IF imm_value < 0 THEN 2048 ELSE 0
           insn == BitOr(BitOr(BitOr(12288, sign_mask), Shl(dst.index, 8)),
                         ABS(imm_value))
       IN Done(gum_thumb_writer_put_instruction(w, insn), "TRUE")

gum_thumb_writer_put_sub_reg_imm(w, dst_reg, imm_value) ==
  gum_thumb_writer_put_add_reg_imm(w, dst_reg, -imm_value)

gum_thumb_writer_put_add_reg_reg_imm(w, dst_reg, left_reg, right_value) ==
  LET dst == gum_arm_reg_describe(dst_reg)
      left == gum_arm_reg_describe(left_reg)
  IN IF left.meta = dst.meta
     THEN gum_thumb_writer_put_add_reg_imm(w, dst_reg, right_value)
     ELSE IF left.meta = GUM_ARM_MREG_SP \/ left.meta = GUM_ARM_MREG_PC
       THEN IF right_value < 0 \/ CMod(right_value, 4) # 0 THEN Done(w, "FALSE")
            ELSE LET base_mask == IF left.meta = GUM_ARM_MREG_SP THEN 2048 ELSE 0
                     insn == BitOr(BitOr(BitOr(40960, base_mask),
                                         Shl(dst.index, 8)), right_value \div 4)
                 IN Done(gum_thumb_writer_put_instruction(w, insn), "TRUE")
       ELSE IF ABS(right_value) > 7 THEN Done(w, "FALSE")
            ELSE LET sign_mask == IF right_value < 0 THEN 512 ELSE 0
                     insn == BitOr(BitOr(BitOr(BitOr(7168, sign_mask),
                                               Shl(ABS(right_value), 6)),
                                         Shl(left.index, 3)), dst.index)
                 IN Done(gum_thumb_writer_put_instruction(w, insn), "TRUE")

gum_thumb_writer_put_sub_reg_reg_imm(w, dst_reg, left_reg, right_value) ==
  gum_thumb_writer_put_add_reg_reg_imm(w, dst_reg, left_reg, -right_value)

(* ------------------------------------------------------------------ *)
(* The caller                                                          *)
(* ------------------------------------------------------------------ *)
\* Calls a caller makes before it stops, per workload.
MaxOpsLabel == 4
MaxOpsBranch == 4
MaxOpsCbz == 4
MaxOpsLiteral == 4
MaxOpsAll == 2
MaxOpsEncode == 5

Budget ==
  CASE workload = "labels" -> MaxOpsLabel
    [] workload = "branches" -> MaxOpsBranch
    [] workload = "cbz" -> MaxOpsCbz
    [] workload = "literals" -> MaxOpsLiteral
    [] workload = "all" -> MaxOpsAll
    [] workload = "encode" -> MaxOpsEncode
    [] workload = "fill_labels" -> GUM_MAX_LABEL_COUNT + 2
    [] workload = "fill_label_refs" -> GUM_MAX_LREF_COUNT + 2
    [] workload = "fill_literal_refs" -> GUM_MAX_LITERAL_REF_COUNT + 2

\* 0 and 0x1000
Bases == {0, 4096}
LabelIds == {1, 2}
\* ARM_CC_EQ and ARM_CC_LE
Conditions == {1, 14}
\* 42 and 0x12345678
Values == {42, 305419896}

InitWriter(code_address, load) ==
  /\ base = code_address
  /\ code = code_address
  /\ pc = code_address
  /\ id_to_address = <<>>
  /\ label_refs = <<>>
  /\ literal_refs = <<>>
  /\ mem = EmptyMem
  /\ halfwords = 0
  /\ slots = 0
  /\ flushed_labels = <<>>
  /\ op = "new"
  /\ args = <<>>
  /\ ret = "void"
  /\ ops = 0
  /\ prev = [w |-> [base |-> code_address, code |-> code_address,
                    pc |-> code_address, id_to_address |-> <<>>,
                    label_refs |-> <<>>, literal_refs |-> <<>>,
                    mem |-> EmptyMem, halfwords |-> 0, slots |-> 0],
             flushed_labels |-> <<>>,
             op |-> "new", args |-> <<>>, ret |-> "void"]
  /\ workload = load

CallWith(name, operands, r) ==
  /\ ops < Budget
  /\ base' = r.w.base
  /\ code' = r.w.code
  /\ pc' = r.w.pc
  /\ id_to_address' = r.w.id_to_address
  /\ label_refs' = r.w.label_refs
  /\ literal_refs' = r.w.literal_refs
  /\ mem' = r.w.mem
  /\ halfwords' = r.w.halfwords
  /\ slots' = r.w.slots
  /\ flushed_labels' = IF name = "flush" THEN id_to_address
                       ELSE IF name = "reset" THEN <<>> ELSE flushed_labels
  /\ op' = name
  /\ args' = operands
  /\ ret' = r.ret
  /\ ops' = ops + 1
  /\ prev' = [w |-> Self, flushed_labels |-> flushed_labels,
              op |-> op, args |-> args, ret |-> ret]
  /\ UNCHANGED workload

Call(name, r) == CallWith(name, <<>>, r)

Reset(code_address) ==
  /\ Call("reset", Done(gum_thumb_writer_reset(Self, code_address), "void"))
Skip(n_bytes) ==
  /\ Call("skip", Done(gum_thumb_writer_skip(Self, n_bytes), "void"))
Flush ==
  /\ Call("flush", gum_thumb_writer_flush(Self))
PutInstruction(insn) ==
  /\ Call("put_instruction",
       Done(gum_thumb_writer_put_instruction(Self, insn), "void"))
PutBytes(data) ==
  /\ Call("put_bytes", gum_thumb_writer_put_bytes(Self, data))
PutNop ==
  /\ Call("put_nop", Done(gum_thumb_writer_put_nop(Self), "void"))
PutBxReg(reg) ==
  /\ Call("put_bx_reg", Done(gum_thumb_writer_put_bx_reg(Self, reg), "void"))
PutCmpRegImm(reg, imm_value) ==
  /\ Call("put_cmp_reg_imm",
       Done(gum_thumb_writer_put_cmp_reg_imm(Self, reg, imm_value), "void"))
PutMovRegU8(reg, imm_value) ==
  /\ Call("put_mov_reg_u8",
       Done(gum_thumb_writer_put_mov_reg_u8(Self, reg, imm_value), "void"))
PutLabel(id) ==
  /\ CallWith("put_label", <<id>>, gum_thumb_writer_put_label(Self, id))
PutBLabel(id) ==
  /\ Call("put_b_label", gum_thumb_writer_put_b_label(Self, id))
PutBCondLabel(cc, id) ==
  /\ Call("put_b_cond_label", gum_thumb_writer_put_b_cond_label(Self, cc, id))
PutBeqLabel(id) ==
  /\ Call("put_beq_label", gum_thumb_writer_put_beq_label(Self, id))
PutBneLabel(id) ==
  /\ Call("put_bne_label", gum_thumb_writer_put_bne_label(Self, id))
PutCbzRegLabel(reg, id) ==
  /\ Call("put_cbz_reg_label", gum_thumb_writer_put_cbz_reg_label(Self, reg, id))
PutCbnzRegLabel(reg, id) ==
  /\ Call("put_cbnz_reg_label",
       gum_thumb_writer_put_cbnz_reg_label(Self, reg, id))
PutLdrRegU32(reg, val) ==
  /\ Call("put_ldr_reg_u32", gum_thumb_writer_put_ldr_reg_u32(Self, reg, val))
PutPushRegsArray(regs) ==
  /\ CallWith("put_push_regs_array", regs,
           gum_thumb_writer_put_push_regs_array(Self, regs))
PutPopRegsArray(regs) ==
  /\ CallWith("put_pop_regs_array", regs,
           gum_thumb_writer_put_pop_regs_array(Self, regs))
PutLdrRegRegOffset(dst_reg, src_reg, src_offset) ==
  /\ Call("put_ldr_reg_reg_offset",
       gum_thumb_writer_put_ldr_reg_reg_offset(Self, dst_reg, src_reg,
                                               src_offset))
PutStrRegRegOffset(src_reg, dst_reg, dst_offset) ==
  /\ Call("put_str_reg_reg_offset",
       gum_thumb_writer_put_str_reg_reg_offset(Self, src_reg, dst_reg,
                                               dst_offset))
PutAddRegImm(dst_reg, imm_value) ==
  /\ CallWith("put_add_reg_imm", <<dst_reg, imm_value>>,
           gum_thumb_writer_put_add_reg_imm(Self, dst_reg, imm_value))
PutSubRegImm(dst_reg, imm_value) ==
  /\ CallWith("put_sub_reg_imm", <<dst_reg, imm_value>>,
           gum_thumb_writer_put_sub_reg_imm(Self, dst_reg, imm_value))
PutAddRegRegImm(dst_reg, left_reg, right_value) ==
  /\ Call("put_add_reg_reg_imm",
       gum_thumb_writer_put_add_reg_reg_imm(Self, dst_reg, left_reg,
                                            right_value))
PutSubRegRegImm(dst_reg, left_reg, right_value) ==
  /\ Call("put_sub_reg_reg_imm",
       gum_thumb_writer_put_sub_reg_reg_imm(Self, dst_reg, left_reg,
                                            right_value))

(* ------------------------------------------------------------------ *)
(* Labels and branches: a few calls, short distances                   *)
(* ------------------------------------------------------------------ *)
InitLabel == \E a \in Bases : InitWriter(a, "labels")

NextLabel ==
  \/ \E a \in Bases : Reset(a)
  \/ \E id \in LabelIds : PutLabel(id)
  \/ \E id \in LabelIds : PutBLabel(id)
  \/ \E cc \in Conditions, id \in LabelIds : PutBCondLabel(cc, id)
  \/ \E id \in LabelIds : PutCbzRegLabel(0, id)
  \/ \E id \in LabelIds : PutCbnzRegLabel(7, id)
  \/ PutNop
  \/ Skip(2)
  \/ Flush

SpecLabel == InitLabel /\ [][NextLabel]_vars

(* ------------------------------------------------------------------ *)
(* Branches at the ends of their ranges                                *)
(* ------------------------------------------------------------------ *)
\* Gaps that put a label at -254, -256, -258, +254, +256 bytes of a b<cond>
\* and at -2046, -2048, -2050, +2046, +2048 bytes of a b.
BranchSkips == {250, 252, 254, 256, 258, 2042, 2044, 2046, 2048, 2050}

InitBranch == \E a \in Bases : InitWriter(a, "branches")

NextBranch ==
  \/ PutLabel(1)
  \/ PutBLabel(1)
  \/ \E cc \in Conditions : PutBCondLabel(cc, 1)
  \/ \E n \in BranchSkips : Skip(n)
  \/ Flush

SpecBranch == InitBranch /\ [][NextBranch]_vars

\* Gaps that put a label at +0, +126, +128 and +256 bytes of a cbz.
CbzSkips == {2, 128, 130, 258}

InitCbz == \E a \in Bases : InitWriter(a, "cbz")

NextCbz ==
  \/ PutLabel(1)
  \/ \E reg \in {0, 7} : PutCbzRegLabel(reg, 1)
  \/ \E reg \in {0, 7} : PutCbnzRegLabel(reg, 1)
  \/ PutNop
  \/ \E n \in CbzSkips : Skip(n)
  \/ Flush

SpecCbz == InitCbz /\ [][NextCbz]_vars

(* ------------------------------------------------------------------ *)
(* Literal loads and the pool                                          *)
(* ------------------------------------------------------------------ *)
\* Gaps that put the pool at the last offset a T1 ldr (1020) and a T2 ldr.w
\* (4092, word aligned) can encode, and just beyond.
LiteralSkips == {2, 1020, 1024, 4092, 4096}

InitLiteral == \E a \in Bases : InitWriter(a, "literals")

NextLiteral ==
  \/ \E reg \in {0, 8}, val \in Values : PutLdrRegU32(reg, val)
  \/ PutNop
  \/ \E n \in LiteralSkips : Skip(n)
  \/ PutBLabel(1)
  \/ PutLabel(1)
  \/ Flush

SpecLiteral == InitLiteral /\ [][NextLiteral]_vars

(* ------------------------------------------------------------------ *)
(* A compare, a conditional branch over a nop, its label                *)
(* ------------------------------------------------------------------ *)
InitEncode == \E a \in Bases : InitWriter(a, "encode")

NextEncode ==
  \/ PutCmpRegImm(3, 7)
  \/ PutBeqLabel(1)
  \/ PutBneLabel(1)
  \/ PutNop
  \/ PutLabel(1)
  \/ Flush

SpecEncode == InitEncode /\ [][NextEncode]_vars

(* ------------------------------------------------------------------ *)
(* Every operation; and callers that fill one of the tables            *)
(* ------------------------------------------------------------------ *)
Filling == workload \in {"fill_labels", "fill_label_refs", "fill_literal_refs"}

\* What the caller passes: anything of a small menu, or, when it fills a
\* table, the one call that adds an entry to it.
MenuLabelIds ==
  IF workload = "fill_labels" THEN {Len(id_to_address) + 1}
  ELSE IF Filling THEN {} ELSE LabelIds
MenuRefIds ==
  IF workload = "fill_label_refs" THEN {1}
  ELSE IF Filling THEN {} ELSE {1}
MenuValues ==
  IF workload = "fill_literal_refs" THEN {42}
  ELSE IF Filling THEN {} ELSE Values
MenuBases == IF Filling THEN {} ELSE Bases
Menu(S) == IF Filling THEN {} ELSE S

Init ==
  \E a \in Bases :
    \E load \in {"all", "fill_labels", "fill_label_refs", "fill_literal_refs"} :
      InitWriter(a, load)

Next ==
  \/ \E a \in MenuBases : Reset(a)
  \/ \E n \in Menu({2, 4}) : Skip(n)
  \/ /\ \/ workload = "all"
        \/ /\ workload = "fill_labels"
           /\ Len(id_to_address) >= GUM_MAX_LABEL_COUNT - 1
     /\ Flush
  \/ \E insn \in Menu({48896}) : PutInstruction(insn)
  \/ \E data \in Menu({<<>>, <<1>>, <<1, 2>>, <<1, 2, 3>>}) : PutBytes(data)
  \/ ~Filling /\ PutNop
  \/ \E reg \in Menu({14}) : PutBxReg(reg)
  \/ \E reg \in Menu({3}) : PutCmpRegImm(reg, 7)
  \/ \E reg \in Menu({0}) : PutMovRegU8(reg, 42)
  \/ \E id \in MenuLabelIds : PutLabel(id)
  \/ \E id \in MenuRefIds : PutBLabel(id)
  \/ \E cc \in Menu(Conditions), id \in MenuRefIds : PutBCondLabel(cc, id)
  \/ \E id \in Menu({1}) : PutBeqLabel(id)
  \/ \E id \in Menu({1}) : PutBneLabel(id)
  \/ \E id \in Menu({1}) : PutCbzRegLabel(0, id)
  \/ \E id \in Menu({1}) : PutCbnzRegLabel(7, id)
  \/ \E reg \in {0, 8}, val \in MenuValues :
       (workload = "fill_literal_refs" => reg = 0) /\ PutLdrRegU32(reg, val)
  \/ \E regs \in Menu({<<>>, <<4, 5, 14>>, <<4, 8>>}) : PutPushRegsArray(regs)
  \/ \E regs \in Menu({<<>>, <<4, 5, 15>>, <<8>>}) : PutPopRegsArray(regs)
  \/ \E src \in Menu({1, 13}), off \in {6, 124, 128, 1020, 4095, 4096} :
       PutLdrRegRegOffset(0, src, off)
  \/ \E dst \in Menu({1, 8}), off \in {4, 4095, 4096} :
       PutStrRegRegOffset(0, dst, off)
  \/ \E dst \in Menu({0, 13}), imm \in {-4, 2, 255, 256, 508, 512} :
       PutAddRegImm(dst, imm)
  \/ \E dst \in Menu({0, 13}), imm \in {2, 4, 256} : PutSubRegImm(dst, imm)
  \/ \E left \in Menu({0, 1, 13, 15}), v \in {-8, 2, 7, 8} :
       PutAddRegRegImm(0, left, v)
  \/ \E left \in Menu({1, 13}), v \in {-4, 7, 8} : PutSubRegRegImm(0, left, v)

Spec == Init /\ [][Next]_vars

(* ------------------------------------------------------------------ *)
(* Properties                                                          *)
(* ------------------------------------------------------------------ *)
\* The addresses a table records for an id.
AddressesOf(table, id) ==
  {table[i].address : i \in {j \in 1..Len(table) : table[j].id = id}}
DefinedIds(table) == {table[i].id : i \in 1..Len(table)}
Refs(refs) == {refs[i] : i \in 1..Len(refs)}

\* What a pending reference is, by the opcode its operation emitted.
IsBCond(insn) == insn \div 4096 = 13
IsB(insn) == insn \div 2048 = 28
IsCbz(insn) == ~IsBCond(insn) /\ ~IsB(insn)

\* The byte displacements the three encodings can express.
Encodable(insn, d) ==
  IF IsBCond(insn) THEN d >= -256 /\ d <= 254
  ELSE IF IsB(insn) THEN d >= -2048 /\ d <= 2046
  ELSE d >= 0 /\ d <= 126

\* C1: flush returns success when every label a pending branch refers to has
\* been defined by put_label (before or after the branch, at any address,
\* address 0 included) within the range of the branch, and returns failure
\* when some referenced label was never defined.
C1_FlushResolvesEveryDefinedLabel ==
  op = "flush" =>
    LET table == prev.w.id_to_address
        pending == Refs(prev.w.label_refs)
    IN /\ (\A r \in pending :
             /\ r.id \in DefinedIds(table)
             /\ \A a \in AddressesOf(table, r.id) :
                  Encodable(LoadU16(prev.w.mem, r.insn), a - r.pc))
          => ret = "TRUE"
       /\ (\E r \in pending : r.id \notin DefinedIds(table)) => ret = "FALSE"

\* C6: a flush that fails leaves every halfword of the code buffer as it was.
C6_FailedFlushLeavesCodeIntact ==
  (op = "flush" /\ ret = "FALSE") => mem = prev.w.mem

\* C7: each label id appears at most once in the label table.
C7_LabelIdsUnique ==
  \A i, j \in 1..Len(id_to_address) :
    id_to_address[i].id = id_to_address[j].id => i = j

\* The address a literal load at an address reads relative to: Align(PC, 4).
AlignedPc(insn_address) == ((insn_address + 4) \div 4) * 4
SlotHolds(m, slot, val) ==
  /\ {slot, slot + 1, slot + 2, slot + 3} \subseteq DOMAIN m
  /\ LoadU32(m, slot) = val

\* C2: after a flush that emits the pool, every literal load recorded since
\* the previous flush points at a slot holding its value, and the patch has
\* left the other bits of the load as they were, whatever lies between the
\* load and the pool.
C2_LoadsPointAtTheirSlots ==
  (op = "flush" /\ ret = "TRUE") =>
    \A r \in Refs(prev.w.literal_refs) :
      LET before == LoadU16(prev.w.mem, r.insn)
          after == LoadU16(mem, r.insn)
          before2 == LoadU16(prev.w.mem, r.insn + 2)
          after2 == LoadU16(mem, r.insn + 2)
      IN IF before \div 2048 = 9
         THEN /\ SlotHolds(mem, AlignedPc(r.insn) + 4 * (after % 256), r.val)
              /\ after \div 256 = before \div 256
         ELSE /\ SlotHolds(mem, AlignedPc(r.insn) + (after2 % 4096), r.val)
              /\ after2 \div 4096 = before2 \div 4096

\* The values of a reference table, each once, in order of first occurrence.
FirstOccurrences(refs) ==
  LET RECURSIVE Acc(_, _)
      Acc(i, acc) ==
        IF i > Len(refs) THEN acc
        ELSE Acc(i + 1, IF \E k \in 1..Len(acc) : acc[k] = refs[i].val
                        THEN acc ELSE Append(acc, refs[i].val))
  IN Acc(1, <<>>)

\* The call has appended exactly these slots (after at most one halfword of
\* padding) and nothing else.
PoolAppended(vals) ==
  LET n == Len(vals)
      first_slot == code - 4 * n
  IN /\ slots - prev.w.slots = n
     /\ first_slot - prev.w.code \in {0, 2}
     /\ n = 0 => first_slot = prev.w.code
     /\ \A k \in 1..n : SlotHolds(mem, first_slot + 4 * (k - 1), vals[k])

\* C3 as written: at every flush the slots appended are the distinct values
\* of the pending literal references, in order of first occurrence.
C3_EveryFlushEmitsDistinctValues ==
  op = "flush" => PoolAppended(FirstOccurrences(prev.w.literal_refs))

\* C3, amended: at every flush that returns success the slots appended are
\* the distinct values of the pending literal references, in order of first
\* occurrence, each exactly once.
C3_SuccessfulFlushEmitsDistinctValues ==
  (op = "flush" /\ ret = "TRUE") =>
    PoolAppended(FirstOccurrences(prev.w.literal_refs))

C3_Witness ==
  /\ op = "flush"
  /\ ret = "TRUE"
  /\ Len(prev.w.literal_refs) = 3
  /\ Len(FirstOccurrences(prev.w.literal_refs)) = 2
  /\ prev.w.literal_refs[1].val = prev.w.literal_refs[3].val

\* C4: after a successful flush both reference tables are empty, and a flush
\* called again right away returns success and changes nothing.
C4_FlushIdempotent ==
  /\ (op = "flush" /\ ret = "TRUE") => (label_refs = <<>> /\ literal_refs = <<>>)
  /\ (op = "flush" /\ prev.op = "flush" /\ prev.ret = "TRUE") =>
       (ret = "TRUE" /\ Self = prev.w)

C4_Witness ==
  /\ op = "flush"
  /\ prev.op = "flush"
  /\ prev.ret = "TRUE"
  /\ slots > 0
  /\ ret = "TRUE"

FallibleOps ==
  {"put_label", "put_b_label", "put_b_cond_label", "put_beq_label",
   "put_bne_label", "put_cbz_reg_label", "put_cbnz_reg_label",
   "put_ldr_reg_u32", "put_ldr_reg_reg_offset", "put_str_reg_reg_offset",
   "put_add_reg_imm", "put_sub_reg_imm", "put_add_reg_reg_imm",
   "put_sub_reg_reg_imm", "put_push_regs_array", "put_pop_regs_array",
   "put_bytes"}

\* C5: an emit or record operation that returns failure has changed nothing:
\* cursor, pc, buffer, label table and both reference tables are as before.
C5_FailedOperationWritesNothing ==
  (op \in FallibleOps /\ ret = "FALSE") => Self = prev.w

C5_Witness ==
  /\ op = "put_b_label"
  /\ ret = "FALSE"
  /\ Len(label_refs) = GUM_MAX_LREF_COUNT
  /\ code = base + 2 * GUM_MAX_LREF_COUNT

\* C8 as written: with one count H of halfwords, code = base + 2*H and
\* pc = base + 2*H + 4*L.
C8_CursorAndPcAsWritten ==
  /\ code = base + 2 * halfwords
  /\ pc = base + 2 * halfwords + 4 * slots

\* C8, amended: the cursor and the pc advance together, over the halfwords
\* and over the pool slots: code = pc = base + 2*H + 4*L.
C8_CursorAndPcAdvanceTogether ==
  /\ code = base + 2 * halfwords + 4 * slots
  /\ pc = base + 2 * halfwords + 4 * slots

C8_Witness == op = "flush" /\ slots > 0 /\ halfwords > 0

\* The displacement fields of the patched branches.
CbzField(insn) == 32 * ((insn \div 512) % 2) + ((insn \div 8) % 32)
SignedField(insn, width) ==
  LET f == insn % width IN IF 2 * f >= width THEN f - width ELSE f

\* C9: with a cbz/cbnz pending, flush succeeds only when the label is 0 to
\* 126 bytes ahead of (instruction address + 4), and then the patched i:imm5
\* leads to the label.
C9_CbzReachesLabel ==
  (op = "flush" /\ ret = "TRUE") =>
    \A r \in Refs(prev.w.label_refs) :
      IsCbz(LoadU16(prev.w.mem, r.insn)) =>
        \E a \in AddressesOf(prev.w.id_to_address, r.id) :
          /\ a - r.pc >= 0
          /\ a - r.pc <= 126
          /\ r.pc + 2 * CbzField(LoadU16(mem, r.insn)) = a

\* The claim about b<cond> and b for given extremes: a successful flush has
\* every pending branch within them and patched to lead to its label; a
\* flush whose pending branches are all within them, at an even distance of
\* a label at a non-zero address, succeeds.
BranchRange(insn, lo8, hi8, lo11, hi11) ==
  IF IsBCond(insn) THEN [lo |-> lo8, hi |-> hi8, width |-> 256]
  ELSE [lo |-> lo11, hi |-> hi11, width |-> 2048]

BranchesResolve(lo8, hi8, lo11, hi11) ==
  op = "flush" =>
    LET table == prev.w.id_to_address
        pending == Refs(prev.w.label_refs)
        R(r) == BranchRange(LoadU16(prev.w.mem, r.insn), lo8, hi8, lo11, hi11)
    IN /\ ret = "TRUE" =>
            \A r \in pending :
              \E a \in AddressesOf(table, r.id) :
                /\ a - r.pc >= R(r).lo
                /\ a - r.pc <= R(r).hi
                /\ r.pc + 2 * SignedField(LoadU16(mem, r.insn), R(r).width) = a
       /\ (\A r \in pending :
             /\ AddressesOf(table, r.id) # {}
             /\ \A a \in AddressesOf(table, r.id) :
                  /\ a # 0
                  /\ (a - r.pc) % 2 = 0
                  /\ a - r.pc >= R(r).lo
                  /\ a - r.pc <= R(r).hi)
          => ret = "TRUE"

CmpBeqNopLabelFlushed ==
  /\ op = "flush"
  /\ prev.op = "put_label"
  /\ prev.ret = "TRUE"
  /\ prev.w.base = 4096
  /\ prev.w.code = 4102
  /\ prev.w.halfwords = 3
  /\ LoadU16(prev.w.mem, 4096) = 11015
  /\ LoadU16(prev.w.mem, 4098) = 53248
  /\ LoadU16(prev.w.mem, 4100) = 18112
  /\ prev.w.id_to_address = <<[id |-> 1, address |-> 4102]>>
  /\ Len(prev.w.label_refs) = 1
  /\ prev.w.label_refs[1].id = 1
  /\ prev.w.label_refs[1].insn = 4098
  /\ prev.w.literal_refs = <<>>

BufferHolds(hw0, hw1, hw2) ==
  /\ ret = "TRUE"
  /\ code = 4102
  /\ DOMAIN mem = 4096..4101
  /\ LoadU16(mem, 4096) = hw0
  /\ LoadU16(mem, 4098) = hw1
  /\ LoadU16(mem, 4100) = hw2

\* C11 as written: the sequence flushes to 0x2B07, 0xD001, 0x46C0, the beq
\* displacement field being 1.
C11_BeqOverNopAsWritten ==
  CmpBeqNopLabelFlushed => BufferHolds(11015, 53249, 18112)

\* C11, amended: the sequence flushes to 0x2B07, 0xD000, 0x46C0 (bytes
\* 07 2B 00 D0 C0 46): the label is at the beq's address + 4, which is the pc
\* the displacement is relative to, so the field is 0.
C11_BeqOverNop ==
  CmpBeqNopLabelFlushed => BufferHolds(11015, 53248, 18112)

C11_Witness ==
  /\ CmpBeqNopLabelFlushed
  /\ ret = "TRUE"
  /\ ops = 5
  /\ mem = [a \in 4096..4101 |-> <<7, 43, 0, 208, 192, 70>>[a - 4095]]

\* The signed immediate an add/sub of an immediate encodes: sub negates it.
AddSubImmediate == IF op = "put_sub_reg_imm" THEN -args[2] ELSE args[2]

ImmediateOutOfRange(dst_reg, imm) ==
  IF dst_reg = GUM_ARM_MREG_SP
  THEN CMod(imm, 4) # 0 \/ ABS(CDiv(imm, 4)) > 127
  ELSE ABS(imm) > 255

\* C12: put_add_reg_imm and put_sub_reg_imm fail and emit nothing when the
\* immediate does not fit (other registers: |imm| > 255; SP: not a multiple
\* of 4, or |imm| / 4 > 127), and when they succeed the bits of the emitted
\* halfword above the immediate field are those of the requested operation
\* and register.
C12_AddSubImmChecked ==
  op \in {"put_add_reg_imm", "put_sub_reg_imm"} =>
    LET dst_reg == args[1]
        imm == AddSubImmediate
        sign == IF imm < 0 THEN 1 ELSE 0
        insn == LoadU16(mem, prev.w.code)
    IN /\ ImmediateOutOfRange(dst_reg, imm) => (ret = "FALSE" /\ Self = prev.w)
       /\ ret = "TRUE" =>
            /\ code = prev.w.code + 2
            /\ IF dst_reg = GUM_ARM_MREG_SP
               THEN insn \div 128 = 352 + sign
               ELSE insn \div 256 = 48 + 8 * sign + dst_reg

\* The narrow push/pop halfword for a register set: one bit per low register
\* and bit 8 for the special register.
NarrowEncoding(narrow_opcode, special_reg, regs) ==
  LET set == {regs[i] : i \in 1..Len(regs)}
      RECURSIVE LowBits(_)
      LowBits(r) ==
        IF r > 7 THEN 0
        ELSE (IF r \in set THEN Shl(1, r) ELSE 0) + LowBits(r + 1)
  IN narrow_opcode + LowBits(0) + (IF special_reg \in set THEN 256 ELSE 0)

\* Every push or pop of low registers and the special register has emitted
\* the one halfword of the narrow encoding.
NarrowPushPop ==
  (op \in {"put_push_regs_array", "put_pop_regs_array"} /\ args # <<>>) =>
    LET special_reg == IF op = "put_push_regs_array"
                       THEN GUM_ARM_MREG_LR ELSE GUM_ARM_MREG_PC
        narrow_opcode == IF op = "put_push_regs_array" THEN 46080 ELSE 48128
    IN (\A i \in 1..Len(args) : args[i] <= 7 \/ args[i] = special_reg) =>
         /\ ret = "TRUE"
         /\ code = prev.w.code + 2
         /\ LoadU16(mem, prev.w.code) =
              NarrowEncoding(narrow_opcode, special_reg, args)

\* push {r4, r5, lr} and then pop {r4, r5, pc} have been called.
PushedThenPopped ==
  /\ op = "put_pop_regs_array"
  /\ args = <<4, 5, 15>>
  /\ prev.op = "put_push_regs_array"
  /\ prev.args = <<4, 5, 14>>

PushPopEmitted(push_insn, pop_insn) ==
  /\ ret = "TRUE"
  /\ prev.ret = "TRUE"
  /\ code = prev.w.code + 2
  /\ LoadU16(mem, code - 4) = push_insn
  /\ LoadU16(mem, code - 2) = pop_insn
  /\ ops = 2 => (halfwords = 2 /\ DOMAIN mem = base..(base + 3))

\* C13 as written: push {r4, r5, lr}; pop {r4, r5, pc} emits 0xB430, 0xBD30,
\* and low registers with the special register use the narrow encoding.
C13_PushPopAsWritten ==
  /\ NarrowPushPop
  /\ PushedThenPopped => PushPopEmitted(46128, 48432)

\* C13, amended: push {r4, r5, lr}; pop {r4, r5, pc} emits exactly the two
\* halfwords 0xB530, 0xBD30 (bytes 30 B5 30 BD); a set of low registers and
\* the special register uses the narrow encoding, one mask bit per low
\* register and bit 8 for the special register.
C13_PushPop ==
  /\ NarrowPushPop
  /\ PushedThenPopped => PushPopEmitted(46384, 48432)

C13_Witness ==
  /\ PushedThenPopped
  /\ ops = 2
  /\ mem = [a \in base..(base + 3) |-> <<48, 181, 48, 189>>[a - base + 1]]

\* A T1 ldr is among the literal references pending when flush was called.
T1LoadPending ==
  \E r \in Refs(prev.w.literal_refs) : LoadU16(prev.w.mem, r.insn) \div 2048 = 9

\* What the call did between the code that was there and the pool: one nop
\* exactly when a T1 ldr was pending at a pc that is not a multiple of 4, and
\* then every slot at a multiple of 4.
PoolPadding ==
  LET pad == T1LoadPending /\ prev.w.pc % 4 # 0
      first_slot == prev.w.code + (IF pad THEN 2 ELSE 0)
  IN /\ pad => /\ halfwords = prev.w.halfwords + 1
               /\ LoadU16(mem, prev.w.code) = 18112
     /\ ~pad => halfwords = prev.w.halfwords
     /\ code = first_slot + 4 * (slots - prev.w.slots)
     /\ pc = code
     /\ T1LoadPending =>
          \A k \in 0..(slots - prev.w.slots - 1) : (first_slot + 4 * k) % 4 = 0

\* C14 as written: every flush with literal references pending pads the
\* pool so.
C14_EveryFlushPadsPool ==
  (op = "flush" /\ prev.w.literal_refs # <<>>) => PoolPadding

\* C14, amended: every flush that returns success with literal references
\* pending emits exactly one nop before the pool when a T1 ldr is pending
\* and pc is not a multiple of 4, no padding otherwise, and with a T1 ldr
\* pending every slot starts at a multiple of 4.
C14_SuccessfulFlushPadsPool ==
  (op = "flush" /\ ret = "TRUE" /\ prev.w.literal_refs # <<>>) => PoolPadding

C14_Witness ==
  /\ op = "flush"
  /\ ret = "TRUE"
  /\ Len(prev.w.literal_refs) = 2
  /\ LoadU16(prev.w.mem, prev.w.literal_refs[1].insn) \div 2048 # 9
  /\ T1LoadPending
  /\ prev.w.pc % 4 = 2
  /\ LoadU16(mem, prev.w.code) = 18112
  /\ slots = prev.w.slots + 2

\* C15: a flush that fails has emptied both reference tables, has not moved
\* the cursor or the pc, has emitted no pool and no nop and has left the
\* pending literal loads unpatched; a flush called right after it returns
\* success and emits nothing.
C15_FailedFlushDropsLiterals ==
  /\ (op = "flush" /\ ret = "FALSE") =>
       /\ label_refs = <<>>
       /\ literal_refs = <<>>
       /\ code = prev.w.code
       /\ pc = prev.w.pc
       /\ slots = prev.w.slots
       /\ halfwords = prev.w.halfwords
       /\ DOMAIN mem = DOMAIN prev.w.mem
       /\ \A r \in Refs(prev.w.literal_refs) :
            /\ LoadU16(mem, r.insn) = LoadU16(prev.w.mem, r.insn)
            /\ LoadU16(prev.w.mem, r.insn) \div 2048 # 9 =>
                 LoadU16(mem, r.insn + 2) = LoadU16(prev.w.mem, r.insn + 2)
  /\ (op = "flush" /\ prev.op = "flush" /\ prev.ret = "FALSE") =>
       (ret = "TRUE" /\ Self = prev.w)

\* A flush right after a failed one, the buffer starting with a T1 ldr that
\* no flush has given a slot.
C15_Witness ==
  /\ op = "flush"
  /\ ret = "TRUE"
  /\ prev.op = "flush"
  /\ prev.ret = "FALSE"
  /\ slots = 0
  /\ base \in DOMAIN mem
  /\ LoadU16(mem, base) \div 2048 = 9
  /\ LoadU16(mem, base) % 256 = 0

\* flush leaves the label table as it was, and nothing but reset removes or
\* changes an entry.
LabelTableOnlyGrows ==
  /\ op = "flush" => id_to_address = prev.w.id_to_address
  /\ op # "reset" =>
       /\ Len(id_to_address) >= Len(prev.w.id_to_address)
       /\ SubSeq(id_to_address, 1, Len(prev.w.id_to_address)) =
            prev.w.id_to_address

\* C16: flush never changes the label table, so a label a flush has found
\* defined stays defined until reset: put_label of its id fails, a branch to
\* it emitted after that flush (within range) resolves at the next flush, the
\* table only grows between resets, and put_label fails once it holds 100
\* labels.
C16_LabelsPersistAcrossFlush ==
  /\ LabelTableOnlyGrows
  /\ (op = "put_label" /\ args[1] \in DefinedIds(prev.flushed_labels)) =>
       ret = "FALSE"
  /\ (op = "put_label" /\ Len(prev.w.id_to_address) = GUM_MAX_LABEL_COUNT) =>
       (ret = "FALSE" /\ Self = prev.w)
  /\ (/\ op = "flush"
      /\ prev.w.label_refs # <<>>
      /\ \A r \in Refs(prev.w.label_refs) :
           /\ r.id \in DefinedIds(prev.flushed_labels)
           /\ \A a \in AddressesOf(prev.flushed_labels, r.id) :
                Encodable(LoadU16(prev.w.mem, r.insn), a - r.pc))
     => ret = "TRUE"

====
